---------------------------- MODULE Spec2Model ----------------------------
(***************************************************************************)
(* StudyDashboard (src/main.py): the Course entity, the CourseManager      *)
(* store (save/courses.json) and the Dashboard registry with its three     *)
(* derived views (grade average, grade bar chart, ECTS burndown chart).    *)
(*                                                                         *)
(* Conventions                                                             *)
(*  - A Python value that may be None, and an attribute that may be unset, *)
(*    is a sequence of length 0 (None / unset) or 1 (<<v>>).               *)
(*  - Grades are floats with one decimal in the program; here they are     *)
(*    integers counting tenths (2.5 is 25).  ECTS and semesters are ints.  *)
(*  - A quotient the code computes in floating point is kept exact, as a   *)
(*    record [num, den]; floating point rounding error is not modelled.    *)
(***************************************************************************)
EXTENDS Integers, Sequences, FiniteSets

VARIABLES
    config,     \* StudyConfig: [target_time, target_grade]
    courses,    \* Dashboard.courses: sequence of Course objects
    file,       \* content of save/courses.json
    saved,      \* the last save_courses call: <<>> or <<[op, dup, ok]>>, op the
                \* calling method, dup telling whether its argument held a name
                \* twice, ok what it returned
    last_saved, \* the list of the last save_courses call that returned True:
                \* <<>> before the first one, else <<list>>
    obj,        \* a Course constructed directly and what its methods returned:
                \* <<>> or <<[ects_arg, course, is_completed, round_trip]>>
    gpa,        \* update_table: the local gpa, <<>> for "N/A", else <<hundredths>>
    chart,      \* update_chart: [bar, line]
    burndown    \* update_burndown_chart: what is handed to ax.plot, and the error raised

vars == <<config, courses, file, saved, last_saved, obj, gpa, chart, burndown>>

---------------------------------------------------------------------------
(* Bounds of the model and the input sets of the dialogs.                  *)

MaxEcts == 2            \* the dialogs allow 1..5; the model enters 1 or MaxEcts
MaxTargetTime == 1      \* ConfigDialog allows 1..10 years; 0 is the unset default

EctsMin == 1
SemesterMin == 1
PassMin == 10           \* is_completed: 1 <= grade, in tenths
PassMax == 40           \* is_completed: grade <= 4, in tenths

None == <<>>
Some(v) == <<v>>
Val(o) == o[1]

Names == {"a", "b"}
\* QDoubleSpinBox values of the grade field of EditCourseDialog (0.0 .. 5.0)
\* that the user enters
DialogGrades == {40}
\* grades of the course files the registry starts with
FileGrades == {Some(g) : g \in DialogGrades}
\* grades of the course files the views are computed for
ViewGrades == {None, Some(0), Some(10), Some(25), Some(40), Some(50)}
\* grades a Course is constructed with
AnyGrades == ViewGrades \cup {Some(5), Some(41), Some(60)}
\* QDoubleSpinBox values of the per-course target grade (1.0 .. 5.0)
DialogTargetGrades == {20}
\* StudyConfig.target_grade: the default 0.0, or a value of ConfigDialog
ConfigTargetGrades == {0, 25}
\* StudyConfig.target_grade of the configurations the registry runs with
RegistryTargetGrades == {25}
DialogEcts == {EctsMin, MaxEcts}

Max(a, b) == IF a >= b THEN a ELSE b
Min(a, b) == IF a <= b THEN a ELSE b

\* QSpinBox.setRange(1, target_time * 2): when the maximum is below the
\* minimum, the minimum is the only legal value.  The model offers the two
\* ends of the range.
DialogSemesters(cfg) == {SemesterMin, Max(SemesterMin, cfg.target_time * 2)}

---------------------------------------------------------------------------
(* Course                                                                  *)

\* Course.__init__ without the guard on ects
CourseInit_unguarded(name, ects, grade, target_grade, semester) ==
    [name |-> name, ects |-> Some(ects), grade |-> grade,
     target_grade |-> target_grade, semester |-> semester]

\* Course.__init__: every field verbatim, ects only when it is not 0
\* (otherwise the attribute is never set).
CourseInit(name, ects, grade, target_grade, semester) ==
    [name |-> name,
     ects |-> IF ects # 0 THEN Some(ects) ELSE None,
     grade |-> grade,
     target_grade |-> target_grade,
     semester |-> semester]

\* is_completed with the band closed at 5 instead of 4
is_completed_through_5(c) ==
    c.grade # None /\ PassMin <= Val(c.grade) /\ Val(c.grade) <= 50

\* Course.is_completed
is_completed(c) ==
    c.grade # None /\ PassMin <= Val(c.grade) /\ Val(c.grade) <= PassMax

\* to_dict writing "grade": self.grade or 0
to_dict_grade_or_0(c) ==
    [name |-> c.name, ects |-> Val(c.ects),
     grade |-> IF c.grade = None THEN <<0>> ELSE c.grade,
     target_grade |-> c.target_grade, semester |-> c.semester]

\* Course.to_dict: a dictionary of the five values; reading self.ects needs
\* the attribute to be set.
to_dict(c) ==
    [name |-> c.name, ects |-> Val(c.ects), grade |-> c.grade,
     target_grade |-> c.target_grade, semester |-> c.semester]

\* Course.from_dict
from_dict(d) == CourseInit(d.name, d.ects, d.grade, d.target_grade, d.semester)

\* Python truthiness of a grade: None and 0 are falsy
Truthy(g) == g # None /\ Val(g) # 0

---------------------------------------------------------------------------
(* CourseManager                                                           *)

MapSeq(s, Op(_)) == [i \in 1..Len(s) |-> Op(s[i])]

NamesOf(cs) == {cs[i].name : i \in 1..Len(cs)}

HasDuplicateNames(cs) == \E i, j \in 1..Len(cs) : i # j /\ cs[i].name = cs[j].name

\* the file: absent, the JSON string "" that load_courses writes, or a list
FileAbsent == [kind |-> "absent", items |-> <<>>]
FileEmptyString == [kind |-> "string", items |-> <<>>]
FileList(ds) == [kind |-> "list", items |-> ds]

\* the values of the dict {course.name: course}: one course per name, at
\* the place of the name's first occurrence, the last course of that name
DictValues(cs) ==
    LET firsts == SelectSeq([i \in 1..Len(cs) |-> i],
                            LAMBDA i : \A j \in 1..(i - 1) : cs[j].name # cs[i].name)
        last(name) == CHOOSE i \in 1..Len(cs) :
                        /\ cs[i].name = name
                        /\ \A j \in (i + 1)..Len(cs) : cs[j].name # name
    IN  [k \in 1..Len(firsts) |-> cs[last(cs[firsts[k]].name)]]

\* save_courses writing the de-duplicated list before it reports the duplicates
save_courses_writes_deduplicated(cs, f) ==
    [ok |-> ~HasDuplicateNames(cs),
     file |-> [kind |-> "list",
               items |-> [k \in 1..Len(DictValues(cs)) |->
                            [name |-> DictValues(cs)[k].name,
                             ects |-> DictValues(cs)[k].ects[1],
                             grade |-> DictValues(cs)[k].grade,
                             target_grade |-> DictValues(cs)[k].target_grade,
                             semester |-> DictValues(cs)[k].semester]]]]

\* save_courses opening the file with mode "a": the list is written after
\* what the file held
save_courses_appends(cs, f) ==
    IF HasDuplicateNames(cs)
    THEN [ok |-> FALSE, file |-> f]
    ELSE [ok |-> TRUE,
          file |-> [kind |-> "list",
                    items |-> f.items \o
                        [k \in 1..Len(cs) |->
                            [name |-> cs[k].name, ects |-> cs[k].ects[1],
                             grade |-> cs[k].grade, target_grade |-> cs[k].target_grade,
                             semester |-> cs[k].semester]]]]

\* CourseManager.save_courses: [ok, file]
save_courses(cs, f) ==
    LET existing_courses == NamesOf(cs)   \* the keys of the dict built by name
    IN  IF Cardinality(existing_courses) < Len(cs)
        THEN [ok |-> FALSE, file |-> f]
        ELSE [ok |-> TRUE, file |-> FileList(MapSeq(DictValues(cs), to_dict))]

\* CourseManager.load_courses: [courses, file]
load_courses(f) ==
    IF f.kind = "absent"
    THEN [courses |-> <<>>, file |-> FileEmptyString]
    ELSE [courses |-> MapSeq(f.items, from_dict), file |-> f]

\* sorted(..., key=semester) is stable: insert each course after every
\* course already placed whose semester is not larger.
RECURSIVE InsertBySemester(_, _)
InsertBySemester(c, s) ==
    IF s = <<>> THEN <<c>>
    ELSE IF s[Len(s)].semester <= c.semester THEN Append(s, c)
    ELSE Append(InsertBySemester(c, SubSeq(s, 1, Len(s) - 1)), s[Len(s)])

RECURSIVE sort_courses_by_semester(_)
sort_courses_by_semester(cs) ==
    IF cs = <<>> THEN <<>>
    ELSE InsertBySemester(cs[Len(cs)], sort_courses_by_semester(SubSeq(cs, 1, Len(cs) - 1)))

---------------------------------------------------------------------------
(* Dashboard: the three derived views                                      *)

Rat(n, d) == [num |-> n, den |-> d]

\* Python's round() on a non-negative quotient n/d: to the nearest integer,
\* a tie to the even one.
RoundHalfEven(n, d) ==
    LET q == n \div d
        r == n % d
    IN  IF 2 * r < d THEN q
        ELSE IF 2 * r > d THEN q + 1
        ELSE IF q % 2 = 0 THEN q ELSE q + 1

\* line 489: the courses summed into total_weighted
WeightedCourses(cs) == {i \in 1..Len(cs) : cs[i].grade # None}
\* line 490: the courses summed into total_ects (None != 0 is true in Python)
EctsCourses(cs) == {i \in 1..Len(cs) : cs[i].grade # Some(0)}

\* sum of f[i] over the index set S
RECURSIVE SumOver(_, _)
SumOver(S, f) ==
    IF S = {} THEN 0
    ELSE LET i == CHOOSE j \in S : TRUE IN f[i] + SumOver(S \ {i}, f)

\* Dashboard.update_table, lines 489-491: gpa in hundredths, <<>> for "N/A".
\* total_weighted is in tenths, so the quotient in hundredths is
\* 10 * total_weighted / total_ects.
update_table(cs) ==
    LET total_weighted ==
            SumOver(WeightedCourses(cs),
                    [i \in 1..Len(cs) |->
                        Val(cs[i].ects) * (IF Truthy(cs[i].grade) THEN Val(cs[i].grade) ELSE 0)])
        total_ects ==
            SumOver(EctsCourses(cs), [i \in 1..Len(cs) |-> Val(cs[i].ects)])
    IN  IF total_ects # 0 THEN Some(RoundHalfEven(10 * total_weighted, total_ects)) ELSE None

\* line 505 with the test "course.grade is not None"
ChartCourses_not_None(cs) == {i \in 1..Len(cs) : cs[i].grade # None}

\* line 505: the courses whose grade enters the bar
ChartCourses(cs) == {i \in 1..Len(cs) : Truthy(cs[i].grade)}

\* Dashboard.update_chart: the bar (the mean, in tenths) and the dashed line
update_chart(cs, cfg) ==
    LET grades == ChartCourses(cs)
        avg_grade ==
            IF grades # {}
            THEN Rat(SumOver(grades, [i \in 1..Len(cs) |-> Val(cs[i].grade)]), Cardinality(grades))
            ELSE Rat(0, 1)
    IN  [bar |-> avg_grade, line |-> cfg.target_grade]

\* line 526: time_periods = list(range(1, target_time * 2 + 1))
time_periods(cfg) == [i \in 1..Max(0, cfg.target_time * 2) |-> i]

\* the loop as range(total_time + 1), starting at 0
LoopRange_from_0(total_time) == [k \in 1..(total_time + 1) |-> k - 1]

\* line 543: range(1, total_time + 1), the values of i in loop order
LoopRange(total_time) == [k \in 1..total_time |-> k]

\* the slice taken as lst[1:n + 1], leaving the seed out
Prefix_without_seed(lst, n) == SubSeq(lst, 2, Min(n + 1, Len(lst)))

\* lines 553-560: lst[:n]
Prefix(lst, n) == SubSeq(lst, 1, Min(n, Len(lst)))

\* Dashboard.update_burndown_chart: the x values and the three y series
\* handed to ax.plot, and the exception the method ends with ("none" when
\* it returns).  average_rate is bound only when total_time > 1; dividing by
\* total_time happens only inside the loop body.
update_burndown_chart(cs, cfg) ==
    LET all == 1..Len(cs)
        ects == [i \in all |-> Val(cs[i].ects)]
        target_ects == SumOver(all, ects)
        periods == time_periods(cfg)
        earned_ects == SumOver({i \in all : is_completed(cs[i])}, ects)
        remaining_ects == target_ects - earned_ects
        total_time == Len(periods)
        \* line 545: the values of i the three appends run for
        body == SelectSeq(LoopRange(total_time), LAMBDA i : i <= Len(periods))
        n == Len(body)
        error ==
            IF n > 0 /\ total_time = 0 THEN "ZeroDivisionError"
            ELSE IF n > 0 /\ ~(total_time > 1) THEN "UnboundLocalError"
            ELSE "none"
        at(k) == body[k]
        ects_progress ==
            <<Rat(target_ects, 1)>> \o
            [k \in 1..n |-> Rat(target_ects * total_time - at(k) * earned_ects, total_time)]
        optimal_progress ==
            <<Rat(target_ects, 1)>> \o
            [k \in 1..n |-> Rat(target_ects * total_time - target_ects * at(k), total_time)]
        average_burn_rate ==
            <<Rat(target_ects, 1)>> \o
            [k \in 1..n |->
                Rat(target_ects * (total_time - 1) - at(k) * (target_ects - remaining_ects),
                    total_time - 1)]
    IN  IF error # "none"
        THEN [periods |-> <<>>, actual |-> <<>>, ideal |-> <<>>, average |-> <<>>,
              error |-> error]
        ELSE [periods |-> periods,
              actual |-> Prefix(ects_progress, Len(periods)),
              ideal |-> Prefix(optimal_progress, Len(periods)),
              average |-> Prefix(average_burn_rate, Len(periods)),
              error |-> "none"]

---------------------------------------------------------------------------
(* Dialogs                                                                 *)

\* AddCourseDialog.get_course: the grade of a new course is 0
AddCourseDialog_get_course(name, ects, target_grade, semester) ==
    CourseInit(name, ects, Some(0), target_grade, semester)

\* EditCourseDialog.get_course: the grade is the value of the spin box
EditCourseDialog_get_course(name, ects, grade, target_grade, semester) ==
    CourseInit(name, ects, Some(grade), target_grade, semester)

---------------------------------------------------------------------------
(* The state machine                                                       *)

Configs(targetGrades) == [target_time : 0..MaxTargetTime, target_grade : targetGrades]

\* the records a course file holds: ects > 0, the grade a number or null
FileRecords(cfg, grades) ==
    [name : Names, ects : DialogEcts, grade : grades,
     target_grade : DialogTargetGrades, semester : DialogSemesters(cfg)]

\* the course files the program may find when it starts: none, or a list
\* of records with distinct names
InitFiles(cfg, grades) ==
    {FileAbsent} \cup
    {FileList(ds) : ds \in
        {s \in UNION {[1..n -> FileRecords(cfg, grades)] : n \in 0..Cardinality(Names)} :
            \A i, j \in 1..Len(s) : s[i].name = s[j].name => i = j}}

\* the three update_* calls that end __init__ (render), add_course and
\* edit_course; update_table also sorts self.courses
Refresh(cs, cfg) ==
    LET sorted == sort_courses_by_semester(cs)
    IN  /\ courses' = sorted
        /\ gpa' = update_table(sorted)
        /\ chart' = update_chart(sorted, cfg)
        /\ burndown' = update_burndown_chart(sorted, cfg)

\* Dashboard.__init__ on the course file f
Startup(f, cfg) ==
    LET loaded == load_courses(f)
    IN  /\ file' = loaded.file
        /\ saved' = None
        /\ Refresh(loaded.courses, cfg)

InitWith(grades, targetGrades) ==
    \E cfg \in Configs(targetGrades) : \E f \in InitFiles(cfg, grades) :
        LET loaded == load_courses(f)
            cs == sort_courses_by_semester(loaded.courses)
        IN  /\ config = cfg
            /\ file = loaded.file
            /\ saved = None
            /\ last_saved = None
            /\ obj = None
            /\ courses = cs
            /\ gpa = update_table(cs)
            /\ chart = update_chart(cs, cfg)
            /\ burndown = update_burndown_chart(cs, cfg)

Init == InitWith(FileGrades, RegistryTargetGrades)

\* the program is closed and started again
Restart ==
    /\ Startup(file, config)
    /\ UNCHANGED <<config, obj, last_saved>>

\* add_course keeping the appended course when the save is rejected
add_course_without_rollback ==
    \E name \in Names, ects \in DialogEcts, tg \in DialogTargetGrades,
       sem \in DialogSemesters(config) :
        LET appended == Append(courses, AddCourseDialog_get_course(name, ects, tg, sem))
            result == save_courses(appended, file)
        IN  /\ file' = result.file
            /\ saved' = Some([op |-> "add_course", dup |-> HasDuplicateNames(appended),
                              ok |-> result.ok])
            /\ last_saved' = IF result.ok THEN Some(appended) ELSE last_saved
            /\ Refresh(appended, config)
            /\ UNCHANGED <<config, obj>>

\* Dashboard.add_course with the dialog accepted
add_course ==
    \E name \in Names, ects \in DialogEcts, tg \in DialogTargetGrades,
       sem \in DialogSemesters(config) :
        LET new_course == AddCourseDialog_get_course(name, ects, tg, sem)
            appended == Append(courses, new_course)
            result == save_courses(appended, file)
            kept == IF ~result.ok THEN SubSeq(appended, 1, Len(appended) - 1) ELSE appended
        IN  /\ file' = result.file
            /\ saved' = Some([op |-> "add_course", dup |-> HasDuplicateNames(appended),
                              ok |-> result.ok])
            /\ last_saved' = IF result.ok THEN Some(appended) ELSE last_saved
            /\ Refresh(kept, config)
            /\ UNCHANGED <<config, obj>>

\* Dashboard.edit_course with a row selected and the dialog accepted
edit_course ==
    \E selected_row \in 1..Len(courses) :
    \E name \in Names, ects \in DialogEcts, grade \in DialogGrades,
       tg \in DialogTargetGrades, sem \in DialogSemesters(config) :
        LET edited == [courses EXCEPT
                        ![selected_row] = EditCourseDialog_get_course(name, ects, grade, tg, sem)]
            result == save_courses(edited, file)
        IN  /\ file' = result.file
            /\ saved' = Some([op |-> "edit_course", dup |-> HasDuplicateNames(edited),
                              ok |-> result.ok])
            /\ last_saved' = IF result.ok THEN Some(edited) ELSE last_saved
            /\ Refresh(edited, config)
            /\ UNCHANGED <<config, obj>>

\* Course(...) called directly, the ects argument 0 included, then
\* is_completed() and from_dict(to_dict()) called on the object; to_dict
\* raises AttributeError when the ects attribute was never set
ConstructWith(ectsSet, grades) ==
    \E ects \in ectsSet, grade \in grades :
        LET c == CourseInit("a", ects, grade, 20, SemesterMin)
        IN  /\ obj' = Some([ects_arg |-> ects,
                            course |-> c,
                            is_completed |-> is_completed(c),
                            round_trip |-> IF c.ects # None
                                           THEN Some(from_dict(to_dict(c))) ELSE None])
            /\ UNCHANGED <<config, courses, file, saved, last_saved, gpa, chart, burndown>>

Construct == ConstructWith({0}, {None})

Next == add_course \/ edit_course \/ Restart \/ Construct

\* the registry: its operations on course files with few different values
Spec == Init /\ [][Next]_vars

\* the entity and the views: startup on course files with many different
\* values, and Course objects constructed from any arguments
InitViews == InitWith(ViewGrades, ConfigTargetGrades)

ConstructAny == ConstructWith(0..MaxEcts, AnyGrades)

NextViews == Restart \/ ConstructAny

SpecViews == InitViews /\ [][NextViews]_vars

---------------------------------------------------------------------------
(* Properties                                                              *)

\* two quotients are the same number (denominators are positive)
RatEq(x, y) == x.num * y.den = y.num * x.den

\* the courses with a grade that is present and not 0
Graded(cs) == {i \in 1..Len(cs) : cs[i].grade # None /\ cs[i].grade # <<0>>}
CreditsOf(cs) == [i \in 1..Len(cs) |-> cs[i].ects[1]]
GradesOf(cs) == [i \in 1..Len(cs) |-> IF cs[i].grade = None THEN 0 ELSE cs[i].grade[1]]
\* the courses with a grade in the band 1.0 .. 4.0
Passed(cs) == {i \in 1..Len(cs) : cs[i].grade # None /\ cs[i].grade[1] \in 10..40}

\* C1: the gpa of update_table is round(sum(credits * grade) / sum(credits), 2)
\* with both sums over exactly the courses whose grade is present and not 0,
\* and it is "N/A" when there is no such course.
C1_AverageOverGradedCourses ==
    LET G == Graded(courses)
        weighted_sum == SumOver(G, [i \in 1..Len(courses) |->
                                      CreditsOf(courses)[i] * GradesOf(courses)[i]])
        total_credits == SumOver(G, CreditsOf(courses))
    IN  gpa = IF G = {} THEN None
              ELSE Some(RoundHalfEven(10 * weighted_sum, total_credits))

\* C2: a save_courses call whose list holds a name twice leaves the course
\* file as it was and returns False.
C2_DuplicateSaveWritesNothing ==
    [][(saved' # None /\ saved'[1].dup) => (file' = file /\ saved'[1].ok = FALSE)]_vars

\* C2 witness: a save with a duplicate name was rejected while the file
\* held courses.
C2_Witness ==
    /\ saved # None /\ saved[1].dup /\ ~saved[1].ok
    /\ file.kind = "list" /\ Len(file.items) > 0

\* C3: Dashboard.courses never holds two courses of the same name.
C3_NamesUniqueInMemory == ~HasDuplicateNames(courses)

\* the same course records, whatever their order
SameRecords(a, b) ==
    /\ Len(a) = Len(b)
    /\ \A i \in 1..Len(a) :
          Cardinality({j \in 1..Len(a) : a[j] = a[i]}) =
          Cardinality({j \in 1..Len(b) : b[j] = a[i]})

\* C4: when the save of an add_course or edit_course is rejected, the
\* courses in memory after the operation are those before it.
C4_RejectedSaveRolledBack ==
    [][(saved' # None /\ saved'[1].ok = FALSE) => SameRecords(courses', courses)]_vars

\* C5: is_completed() is true exactly when the grade is present and within
\* 1.0 .. 4.0: false for an absent grade, for 0, for 5.0 and outside the band.
C5_IsCompletedBand ==
    obj # None =>
        LET g == obj[1].course.grade
        IN  /\ g = None => obj[1].is_completed = FALSE
            /\ g # None /\ g[1] < 10 => obj[1].is_completed = FALSE
            /\ g # None /\ g[1] > 40 => obj[1].is_completed = FALSE
            /\ g # None /\ g[1] >= 10 /\ g[1] <= 40 => obj[1].is_completed = TRUE

\* C5 witness: is_completed() was called on a course of grade 5.0.
C5_Witness == obj # None /\ obj[1].course.grade = <<50>> /\ obj[1].is_completed = FALSE

\* C6: for target_time >= 1 each plotted series has one entry per period,
\* the k-th being the value projected for period k: the ideal series ends
\* at 0 and the actual series at remaining_credits.
C6_SeriesEntryPerPeriod ==
    config.target_time >= 1 =>
        LET T == config.target_time * 2
            target == SumOver(1..Len(courses), CreditsOf(courses))
            earned == SumOver(Passed(courses), CreditsOf(courses))
        IN  /\ burndown.error = "none"
            /\ Len(burndown.periods) = T
            /\ Len(burndown.actual) = T /\ Len(burndown.ideal) = T
            /\ Len(burndown.average) = T
            /\ \A k \in 1..T :
                  /\ RatEq(burndown.ideal[k], Rat(target * T - target * k, T))
                  /\ RatEq(burndown.actual[k], Rat(target * T - k * earned, T))
                  /\ RatEq(burndown.average[k], Rat(target * (T - 1) - k * earned, T - 1))
            /\ RatEq(burndown.ideal[T], Rat(0, 1))
            /\ RatEq(burndown.actual[T], Rat(target - earned, 1))

\* C7: with target_time = 0 the burndown has no periods, three empty
\* series and raises nothing.
C7_ZeroHorizonEmpty ==
    config.target_time = 0 =>
        /\ burndown.periods = <<>>
        /\ burndown.actual = <<>> /\ burndown.ideal = <<>> /\ burndown.average = <<>>
        /\ burndown.error = "none"

\* C7 witness: target_time = 0 with a completed course in the list.
C7_Witness ==
    /\ config.target_time = 0
    /\ Passed(courses) # {}
    /\ burndown.periods = <<>> /\ burndown.error = "none"

\* the five fields of two courses agree
SameFields(c, d) ==
    /\ c.name = d.name /\ c.ects = d.ects /\ c.grade = d.grade
    /\ c.target_grade = d.target_grade /\ c.semester = d.semester

\* C8: for a Course with credits > 0, from_dict(to_dict(c)) has the name,
\* credits, grade (absent and 0 included), target_grade and semester of c.
C8_RoundTrip ==
    /\ obj # None /\ obj[1].course.ects # None =>
          obj[1].round_trip # None /\ SameFields(obj[1].round_trip[1], obj[1].course)
    /\ \A i \in 1..Len(courses) : SameFields(from_dict(to_dict(courses[i])), courses[i])

\* C8 witness: a course with an absent grade went through to_dict and from_dict.
C8_Witness ==
    /\ obj # None /\ obj[1].round_trip # None
    /\ obj[1].course.grade = None /\ obj[1].course.ects[1] > 0

\* C9: every course in memory and in the course file has credits > 0, and
\* a Course constructed with credits 0 does not hold 0 as its credits.
C9_CreditsPositive ==
    /\ \A i \in 1..Len(courses) : courses[i].ects # None /\ courses[i].ects[1] > 0
    /\ \A i \in 1..Len(file.items) : file.items[i].ects > 0
    /\ obj # None /\ obj[1].ects_arg = 0 => obj[1].course.ects # <<0>>

\* C9 witness: a Course was constructed with credits 0 while the registry
\* and the course file held courses.
C9_Witness ==
    /\ obj # None /\ obj[1].ects_arg = 0
    /\ Len(courses) > 0 /\ Len(file.items) > 0
    /\ saved # None /\ saved[1].ok

\* C10: the bar of update_chart is the unweighted mean of the grades that are
\* present and not 0, and 0 when there is none; the line is the configured
\* target_grade.
C10_ChartMean ==
    LET G == Graded(courses)
    IN  /\ G = {} => chart.bar.num = 0
        /\ G # {} => chart.bar.num * Cardinality(G) =
                        SumOver(G, GradesOf(courses)) * chart.bar.den
        /\ chart.bar.den > 0
        /\ chart.line = config.target_grade

\* C10 witness: a list with a graded course next to one without a grade or
\* with grade 0.
C10_Witness ==
    /\ Graded(courses) # {}
    /\ \E i \in 1..Len(courses) : i \notin Graded(courses)
    /\ chart.bar.num > 0

\* a quotient is at most another (denominators are positive)
RatLeq(x, y) == x.num * y.den <= y.num * x.den

\* a plotted series starts at top, never rises and stays within [0, top]
StartsAtAndFalls(series, top) ==
    /\ Len(series) > 0
    /\ RatEq(series[1], Rat(top, 1))
    /\ \A k \in 1..(Len(series) - 1) : RatLeq(series[k + 1], series[k])
    /\ \A k \in 1..Len(series) :
          /\ series[k].den > 0
          /\ RatLeq(Rat(0, 1), series[k])
          /\ RatLeq(series[k], Rat(top, 1))

C12_AddRejectedDuringCollision ==
    [][(HasDuplicateNames(courses) /\ saved' # None /\ saved'[1].op = "add_course") =>
          (saved'[1].ok = FALSE /\ courses' = courses /\ file' = file)]_vars

\* C12 witness: an add_course was rejected while the list in memory held a
\* name twice and the course file held courses.
C12_Witness ==
    /\ HasDuplicateNames(courses)
    /\ saved # None /\ saved[1].op = "add_course" /\ ~saved[1].ok
    /\ Len(file.items) > 0

\* the record of the course file is the record of the course
RecordOfCourse(d, c) ==
    /\ c.ects # None /\ d.ects = c.ects[1]
    /\ d.name = c.name /\ d.grade = c.grade
    /\ d.target_grade = c.target_grade /\ d.semester = c.semester

\* C13: the course file never holds a name twice, and after a save_courses
\* call returned True it holds exactly the list of the last such call, in
\* its order, so that load_courses returns courses with the same fields in
\* the same order.
C13_FileIsLastSavedList ==
    /\ \A i, j \in 1..Len(file.items) : file.items[i].name = file.items[j].name => i = j
    /\ saved # None /\ saved[1].ok => last_saved # None
    /\ last_saved # None =>
          /\ file.kind = "list"
          /\ Len(file.items) = Len(last_saved[1])
          /\ \A i \in 1..Len(file.items) : RecordOfCourse(file.items[i], last_saved[1][i])
          /\ Len(load_courses(file).courses) = Len(last_saved[1])
          /\ \A i \in 1..Len(last_saved[1]) :
                SameFields(load_courses(file).courses[i], last_saved[1][i])

\* C13 witness: the program was started again on the file of a successful
\* save of two courses that were not in semester order.
C13_Witness ==
    /\ saved = None /\ last_saved # None
    /\ Len(last_saved[1]) = 2
    /\ last_saved[1][1].semester > last_saved[1][2].semester
    /\ Len(file.items) = 2 /\ Len(courses) = 2

===========================================================================
